---- MODULE Spec2Model ----
(***************************************************************************)
(* RAW PCM explorer (src/src/App.tsx): the sample codecs, the signal       *)
(* heuristics, the candidate list, the preview pipeline run by the preview *)
(* effect, and the external-decoder button.                                *)
(*                                                                         *)
(* Numbers.  A Float32Array element is a dyadic rational, an IEEE infinity *)
(* or NaN.  A sample is the record [k, num, bits]: k = "num" stands for    *)
(* num / 2^bits, k = "inf" for +-Infinity (the sign is num's), k = "nan"   *)
(* for NaN.  The double arithmetic of the heuristics is modelled by exact  *)
(* rational arithmetic on unbounded naturals (Big*, below), every          *)
(* comparison with a decimal threshold being cleared of its denominators.  *)
(***************************************************************************)
EXTENDS Integers, Sequences, FiniteSets, TLC

VARIABLES
    arrayBuffer,          \* the loaded file: [id, bytes]; Null before any load
    assumedSR, previewSeconds,
    enableSilentFilter, enableClipFilter, enableScaleFilter,
    limitCandidates,
    cards,                \* the published CardItem list
    loading,
    ffmpegRef,            \* ffmpegRef.current: the cached decoder handle or NoHandle
    runs,                 \* the async closures of the preview effect, oldest first
    tasks,                \* the invocations of onTryFFmpegDecode, oldest first
    nEffects,             \* preview effect invocations since the mount
    nFaults,              \* allocation failures injected so far
    ffCalls,              \* decodeWithFFmpeg invocations so far
    probe,                \* the codec specification's call: its inputs and result
    modal,                \* the detail view's state, or NoModal
    opens,                \* the invocations of openModal, oldest first
    instances,            \* the FFmpeg instances that loaded, and their files
    alerts,               \* alert() calls of openModal so far
    nTicks                \* setTimeout callbacks of the preview effect run so far

vars == <<arrayBuffer, assumedSR, previewSeconds, enableSilentFilter, enableClipFilter,
          enableScaleFilter, limitCandidates, cards, loading, ffmpegRef, runs, tasks,
          nEffects, nFaults, ffCalls, probe, modal, opens, instances, alerts, nTicks>>

decVars == <<modal, opens, instances, alerts>>

appVars == <<arrayBuffer, assumedSR, previewSeconds, enableSilentFilter, enableClipFilter,
             enableScaleFilter, limitCandidates, cards, loading, ffmpegRef, runs, tasks,
             nEffects, nFaults, ffCalls, decVars, nTicks>>

\* ------------------------------------------------------------- bounds
\* Longest input file of the codec specification, in bytes.
MaxLen == 3
\* Longest input of the 16-bit round trip, in samples.
MaxSamples == 2
\* Preview effect invocations after the mount.
MaxEffects == 2
\* Presses of the FFmpeg button.
MaxPress == 1
\* Output-array allocations that fail.
MaxFaults == 1
\* Invocations of openModal in a run of the detail-view specification.
MaxOpens == 2
\* Files loaded in a run of the detail-view specification.
MaxLoads == 1

\* Byte values the input files of the codec specification are made of.
Bytes == {0, 128, 254, 255}
\* Sample values of the 16-bit round trip's input files.
Samples == {0 - 32768, 0 - 255, 0 - 1, 0, 1, 2, 256, 32767}
\* The files the user loads.
Files == {<<>>, <<128>>, <<0>>}
\* The values the user types into the three number inputs (positive
\* integers).
SRs == {16000, 1}
Secs == {5, 1}
Limits == {999, 5}
\* What the external decoder writes to out.pcm.
FFOutputs == {<<>>, <<255, 127, 0, 128>>}

\* ------------------------------------------------- unbounded naturals
\* A natural number as the sequence of its digits in base 1000, least
\* significant first, without leading zeros (0 is <<>>).
BigBase == 10 * 10 * 10

RECURSIVE BigCarry(_, _)
BigCarry(ds, c) ==
    IF ds = <<>>
    THEN IF c = 0 THEN <<>> ELSE <<c % BigBase>> \o BigCarry(<<>>, c \div BigBase)
    ELSE LET t == Head(ds) + c
         IN  <<t % BigBase>> \o BigCarry(Tail(ds), t \div BigBase)

RECURSIVE BigTrim(_)
BigTrim(ds) ==
    IF ds # <<>> /\ ds[Len(ds)] = 0 THEN BigTrim(SubSeq(ds, 1, Len(ds) - 1)) ELSE ds

Big(n) == BigTrim(BigCarry(<<n>>, 0))

BigDigit(a, i) == IF i >= 1 /\ i <= Len(a) THEN a[i] ELSE 0

BigAdd(a, b) ==
    LET n == IF Len(a) > Len(b) THEN Len(a) ELSE Len(b)
    IN  BigTrim(BigCarry([i \in 1..n |-> BigDigit(a, i) + BigDigit(b, i)], 0))

RECURSIVE BigColumn(_, _, _, _)
\* sum of a[i] * b[k + 1 - i] for i in lo..hi
BigColumn(a, b, k, i) ==
    IF i > Len(a) \/ i > k THEN 0
    ELSE a[i] * BigDigit(b, k + 1 - i) + BigColumn(a, b, k, i + 1)

BigMul(a, b) ==
    IF a = <<>> \/ b = <<>> THEN <<>>
    ELSE BigTrim(BigCarry([k \in 1..(Len(a) + Len(b) - 1) |-> BigColumn(a, b, k, 1)], 0))

RECURSIVE BigBorrow(_, _, _)
\* a - b for a >= b
BigBorrow(a, b, c) ==
    IF a = <<>> THEN <<>>
    ELSE LET t == Head(a) - (IF b = <<>> THEN 0 ELSE Head(b)) - c
         IN  <<t % BigBase>> \o
             BigBorrow(Tail(a), IF b = <<>> THEN <<>> ELSE Tail(b), IF t < 0 THEN 1 ELSE 0)

BigSub(a, b) == BigTrim(BigBorrow(a, b, 0))

BigLt(a, b) ==
    \/ Len(a) < Len(b)
    \/ /\ Len(a) = Len(b)
       /\ \E i \in 1..Len(a) :
            /\ a[i] < b[i]
            /\ \A j \in (i + 1)..Len(a) : a[j] = b[j]

RECURSIVE BigPow2(_)
BigPow2(n) ==
    IF n <= 20 THEN Big(2 ^ n)
    ELSE BigMul(BigPow2(n \div 2), BigPow2(n - (n \div 2)))

RECURSIVE BigSum(_)
BigSum(s) == IF s = <<>> THEN <<>> ELSE BigAdd(Head(s), BigSum(Tail(s)))

RECURSIVE BigFloorDiv(_, _, _, _)
\* The integer q in lo..hi with q * b <= a < (q + 1) * b, by bisection.
BigFloorDiv(a, b, lo, hi) ==
    IF lo >= hi THEN lo
    ELSE LET mid == (lo + hi + 1) \div 2
         IN  IF BigLt(a, BigMul(Big(mid), b))
             THEN BigFloorDiv(a, b, lo, mid - 1)
             ELSE BigFloorDiv(a, b, mid, hi)

\* ------------------------------------------------------------ samples
Abs(n) == IF n < 0 THEN 0 - n ELSE n
Min(a, b) == IF a < b THEN a ELSE b
Max(a, b) == IF a > b THEN a ELSE b

Num(n, b) == [k |-> "num", num |-> n, bits |-> b]
NaN == [k |-> "nan", num |-> 0, bits |-> 0]
Inf(sign) == [k |-> "inf", num |-> sign, bits |-> 0]

\* Math.max(-1, Math.min(1, x)): NaN stays NaN.
Clamp(x) ==
    IF x.k = "nan" THEN x
    ELSE IF x.k = "inf" THEN Num(x.num, 0)
    ELSE IF x.bits < 0 THEN (IF x.num > 0 THEN Num(1, 0)
                             ELSE IF x.num < 0 THEN Num(-1, 0) ELSE x)
    ELSE IF x.bits <= 30 /\ x.num > 2 ^ x.bits THEN Num(1, 0)
    ELSE IF x.bits <= 30 /\ x.num < 0 - 2 ^ x.bits THEN Num(-1, 0)
    ELSE x

RECURSIVE BitLength(_)
BitLength(n) == IF n = 0 THEN 0 ELSE 1 + BitLength(n \div 2)

\* The float32 nearest to n / 2^b (round to nearest, ties to even), as a
\* Float32Array store rounds it; n is an integer of magnitude below 2^31.
ToFloat32(n, b) ==
    LET a == Abs(n)
        len == BitLength(a)
    IN  IF len <= 24 THEN Num(n, b)
        ELSE LET sh == len - 24
                 q == a \div (2 ^ sh)
                 r == a % (2 ^ sh)
                 half == 2 ^ (sh - 1)
                 up == r > half \/ (r = half /\ q % 2 = 1)
                 q2 == IF up THEN q + 1 ELSE q
             IN  Num((IF n < 0 THEN 0 - q2 ELSE q2), b - sh)

\* ----------------------------------------------------- DataView reads
getUint8(buf, offset) == buf[offset + 1]

getInt16(buf, offset, le) ==
    LET lo == IF le THEN buf[offset + 1] ELSE buf[offset + 2]
        hi == IF le THEN buf[offset + 2] ELSE buf[offset + 1]
        u == hi * 256 + lo
    IN  IF u >= 32768 THEN u - 65536 ELSE u

\* getInt32(offset, true); the top byte is made signed first, so that no
\* intermediate value leaves the 32-bit integers.
getInt32(buf, offset) ==
    LET b3 == buf[offset + 4]
        hi == IF b3 >= 128 THEN b3 - 256 ELSE b3
    IN  hi * 16777216 + buf[offset + 3] * 65536 + buf[offset + 2] * 256 + buf[offset + 1]

\* getFloat32(offset, true): IEEE 754 binary32.
getFloat32(buf, offset) ==
    LET b3 == buf[offset + 4]
        b2 == buf[offset + 3]
        sign == IF b3 >= 128 THEN -1 ELSE 1
        e == (b3 % 128) * 2 + (b2 \div 128)
        m == (b2 % 128) * 65536 + buf[offset + 2] * 256 + buf[offset + 1]
    IN  IF e = 255 THEN (IF m = 0 THEN Inf(sign) ELSE NaN)
        ELSE IF e = 0 THEN Num(sign * m, 149)
        ELSE Num(sign * (8388608 + m), 150 - e)

\* ------------------------------------------------------------- G.711
RECURSIVE BitXor(_, _, _)
BitXor(a, b, n) ==
    IF n = 0 THEN 0
    ELSE ((a + b) % 2) + 2 * BitXor(a \div 2, b \div 2, n - 1)

muLawToLinear(muByte) ==
    LET mu == 255 - muByte                 \* ~muByte & 0xFF
        sign == IF mu >= 128 THEN -1 ELSE 1
        exponent == (mu \div 16) % 8
        mantissa == mu % 16
        magnitude == ((mantissa * 8) + 132) * (2 ^ exponent)
    IN  sign * (magnitude - 132)

aLawToLinear(aVal) ==
    LET a == BitXor(aVal, 85, 8)           \* aVal ^= 0x55
        t0 == (a % 16) * 16
        seg == (a % 128) \div 16
        t1 == IF seg >= 1 THEN t0 + 256 ELSE t0
        t == IF seg > 1 THEN t1 * (2 ^ (seg - 1)) ELSE t1
    IN  IF a >= 128 THEN t ELSE 0 - t

\* -------------------------------------------------------- candidates
fmts ==
    << [fmt |-> "16le",  bps |-> 2, name |-> "16LE"],
       [fmt |-> "16be",  bps |-> 2, name |-> "16BE"],
       [fmt |-> "8u",    bps |-> 1, name |-> "8U"],
       [fmt |-> "24le",  bps |-> 3, name |-> "24LE"],
       [fmt |-> "24be",  bps |-> 3, name |-> "24BE"],
       [fmt |-> "32le",  bps |-> 4, name |-> "32LE"],
       [fmt |-> "32f",   bps |-> 4, name |-> "32F"],
       [fmt |-> "mulaw", bps |-> 1, name |-> "mu-law"],
       [fmt |-> "alaw",  bps |-> 1, name |-> "A-law"] >>

chs == <<1, 2>>

\* `${f.fmt}-${ch}ch`.  The labels are written in ASCII: " - " stands for
\* the bullet of the source and "mu-law" for its micro sign.
CandId(fmt, ch) == fmt \o "-" \o ToString(ch) \o "ch"

\* The enumeration with the loops exchanged: channel counts outermost.
candidatesChannelMajor ==
    [k \in 1..(Len(fmts) * Len(chs)) |->
        LET f == fmts[((k - 1) % Len(fmts)) + 1]
            ch == chs[((k - 1) \div Len(fmts)) + 1]
        IN  [id |-> CandId(f.fmt, ch), fmt |-> f.fmt, ch |-> ch,
             label |-> f.name \o " - " \o ToString(ch) \o "ch",
             bytesPerSample |-> f.bps]]
    \o << [id |-> "vox-1ch", fmt |-> "vox", ch |-> 1,
           label |-> "VOX(OKI ADPCM) - 1ch", bytesPerSample |-> 1],
          [id |-> "g721-1ch", fmt |-> "g721", ch |-> 1,
           label |-> "G.721 ADPCM - 1ch", bytesPerSample |-> 1] >>

\* The two nested loops push one candidate per (format, channel count),
\* formats outermost; the two FFmpeg candidates are pushed last.
candidates ==
    [k \in 1..(Len(fmts) * Len(chs)) |->
        LET f == fmts[((k - 1) \div Len(chs)) + 1]
            ch == chs[((k - 1) % Len(chs)) + 1]
        IN  [id |-> CandId(f.fmt, ch), fmt |-> f.fmt, ch |-> ch,
             label |-> f.name \o " - " \o ToString(ch) \o "ch",
             bytesPerSample |-> f.bps]]
    \o << [id |-> "vox-1ch", fmt |-> "vox", ch |-> 1,
           label |-> "VOX(OKI ADPCM) - 1ch", bytesPerSample |-> 1],
          [id |-> "g721-1ch", fmt |-> "g721", ch |-> 1,
           label |-> "G.721 ADPCM - 1ch", bytesPerSample |-> 1] >>

\* --------------------------------------------------- decodeRawToFloat32
\* What a call returns or throws.
Returned(v) == [threw |-> FALSE, val |-> v]
Thrown == [threw |-> TRUE, val |-> <<>>]

\* One sample of format fmt read at byte offset.
DecodeSample(buf, fmt, offset) ==
    IF fmt = "8u" THEN Num(getUint8(buf, offset) - 128, 7)
    ELSE IF fmt = "16le" \/ fmt = "16be"
    THEN Clamp(Num(getInt16(buf, offset, fmt = "16le"), 15))
    ELSE IF fmt = "24le" \/ fmt = "24be"
    THEN LET b0 == getUint8(buf, offset)
             b1 == getUint8(buf, offset + 1)
             b2 == getUint8(buf, offset + 2)
             val0 == IF fmt = "24le" THEN b0 + b1 * 256 + b2 * 65536
                     ELSE b2 + b1 * 256 + b0 * 65536
             val == IF val0 >= 8388608 THEN val0 - 16777216 ELSE val0
         IN  Clamp(Num(val, 23))
    ELSE IF fmt = "32le"
    THEN LET s == getInt32(buf, offset)
         IN  IF s = (0 - 2147483647) - 1 THEN Num(-1, 0)
             ELSE Clamp(ToFloat32(s, 31))
    ELSE IF fmt = "32f" THEN Clamp(getFloat32(buf, offset))
    ELSE IF fmt = "mulaw" THEN Num(muLawToLinear(getUint8(buf, offset)), 15)
    ELSE Num(aLawToLinear(getUint8(buf, offset)), 15)

SupportedFmts == {"8u", "16le", "16be", "24le", "24be", "32le", "32f", "mulaw", "alaw"}

\* previewFrames is <<>> for undefined and <<n>> for the number n.  alloc
\* is what the allocation of the output arrays does: "ok", or "RangeError"
\* when the engine cannot allocate them.
decodeRawToFloat32(buf, cand, previewFrames, alloc) ==
    LET bps == cand.bytesPerSample
        channels == cand.ch
        frameSize == bps * channels
        avail == Len(buf) \div frameSize
        totalFrames == IF previewFrames # <<>> THEN Min(avail, previewFrames[1]) ELSE avail
    IN  IF totalFrames <= 0 THEN Returned(<< <<>> >>)
        ELSE IF alloc # "ok" THEN Thrown
        ELSE IF cand.fmt \notin SupportedFmts THEN Thrown
        ELSE Returned([ch \in 1..channels |->
                 [i \in 1..totalFrames |->
                     DecodeSample(buf, cand.fmt, ((i - 1) * channels + (ch - 1)) * bps)]])

\* ----------------------------------------------- floatTo16PCMInterleaved
\* (v < 0 ? v * 32768 : v * 32767) | 0 for v = Math.max(-1, Math.min(1, x)):
\* the product is truncated toward zero; NaN | 0 is 0.
To16(x) ==
    LET v == Clamp(x)
    IN  IF v.k = "nan" THEN 0
        ELSE LET scaled == BigMul(Big(Abs(v.num)), Big(IF v.num < 0 THEN 32768 ELSE 32767))
                 q == BigFloorDiv(scaled, BigPow2(v.bits), 0, 32768)
             IN  IF v.num < 0 THEN 0 - q ELSE q

floatTo16PCMInterleaved(chData) ==
    LET n == Len(chData[1])
        ch == Len(chData)
    IN  [j \in 1..(n * ch) |-> To16(chData[((j - 1) % ch) + 1][((j - 1) \div ch) + 1])]

\* ---------------------------------------------------------- downmixMono
\* 0.5 * (a + b), stored in a Float32Array.
Average(a, b) ==
    IF a.k = "nan" \/ b.k = "nan" THEN NaN
    ELSE LET e == Max(a.bits, b.bits)
         IN  ToFloat32(a.num * (2 ^ (e - a.bits)) + b.num * (2 ^ (e - b.bits)), e + 1)

downmixMono(chData) ==
    IF Len(chData) = 0 THEN <<>>
    ELSE IF Len(chData) = 1 THEN chData[1]
    ELSE [i \in 1..Min(Len(chData[1]), Len(chData[2])) |-> Average(chData[1][i], chData[2][i])]

\* ----------------------------------------------------------- heuristics
HasNaN(x) == \E i \in 1..Len(x) : x[i].k = "nan"

\* The finest grid of the samples of x: all are multiples of 2^-GridBits(x).
RECURSIVE GridBits(_)
GridBits(x) == IF x = <<>> THEN 0 ELSE Max(Head(x).bits, GridBits(Tail(x)))

\* |x[i]| in units of 2^-e
OnGrid(s, e) == BigMul(Big(Abs(s.num)), BigPow2(e - s.bits))

BigSquare(a) == BigMul(a, a)

BigAbsDiff(a, b) == IF BigLt(a, b) THEN BigSub(b, a) ELSE BigSub(a, b)

\* The magnitudes, in units of 2^-e, of the sum of the positive samples of
\* x, of the sum of its negative samples, and the sum of its squares in
\* units of 4^-e.
SumPos(x, e) == BigSum([i \in 1..Len(x) |-> IF x[i].num > 0 THEN OnGrid(x[i], e) ELSE <<>>])
SumNeg(x, e) == BigSum([i \in 1..Len(x) |-> IF x[i].num < 0 THEN OnGrid(x[i], e) ELSE <<>>])
SumSq(x, e) == BigSum([i \in 1..Len(x) |-> BigSquare(OnGrid(x[i], e))])

\* s2/n - mean*mean with mean = s/n, as the fraction num / den: for s and
\* s2 in units of g = 2^e and g*g, num = n*s2 - s*s and den = n*n*g*g.
VarianceOf(n, g, s, s2) ==
    [num |-> BigSub(BigMul(Big(n), s2), BigSquare(s)),
     den |-> BigMul(Big(n * n), BigSquare(g))]

\* The variance of x: s is the sum of its samples, s2 the sum of squares.
Variance(x) ==
    VarianceOf(Len(x), BigPow2(GridBits(x)),
               BigAbsDiff(SumPos(x, GridBits(x)), SumNeg(x, GridBits(x))),
               SumSq(x, GridBits(x)))

\* v < 1 / k
IsBelow(v, k) == BigLt(BigMul(v.num, Big(k)), v.den)

\* v > k
IsAbove(v, k) == BigLt(BigMul(Big(k), v.den), v.num)

\* isSilentLike with its comparison turned round: v > 1e-6.
isSilentLikeInverted(x) ==
    IF Len(x) = 0 THEN TRUE
    ELSE IF HasNaN(x) THEN FALSE
    ELSE ~IsBelow(Variance(x), 1000000)

\* v < 1e-6
isSilentLike(x) ==
    IF Len(x) = 0 THEN TRUE
    ELSE IF HasNaN(x) THEN FALSE
    ELSE IsBelow(Variance(x), 1000000)

\* |x[i]| > 0.99
IsClippedSample(s) ==
    s.k # "nan" /\ BigLt(BigMul(Big(99), BigPow2(s.bits)), BigMul(Big(100), Big(Abs(s.num))))

\* (c/n) > 0.25
isHeavilyClipped(x) ==
    IF Len(x) = 0 THEN FALSE
    ELSE 4 * Cardinality({i \in 1..Len(x) : IsClippedSample(x[i])}) > Len(x)

\* std < 1e-4 || std > 5 for std the square root of v, v the variance
StdOutOfRange(v) == IsBelow(v, 100000000) \/ IsAbove(v, 25)

isScaleWeird(x) ==
    IF Len(x) = 0 THEN TRUE
    ELSE IF HasNaN(x) THEN FALSE
    ELSE StdOutOfRange(Variance(x))

\* -------------------------------------------------------- decodePreview
\* The hiddenReason strings of the source, by the names the specification
\* gives them; Undefined is JavaScript's undefined.
Undefined == "undefined"
Silent == "Silent"                              \* "무음/평탄"
Clipped == "Clipped"                            \* "과도한 클리핑"
ScaleAnomaly == "ScaleAnomaly"                  \* "스케일 이상"
DecodeFailed == "DecodeFailed"                  \* "디코드 실패"
NeedsExternalDecoder == "NeedsExternalDecoder"  \* "FFmpeg 필요(버튼으로 디코드)"

\* a ?? b
Coalesce(a, b) == IF a = Undefined THEN b ELSE a

IsFFmpegFmt(fmt) == fmt = "vox" \/ fmt = "g721"

\* The three filter lines with `=` in place of `??=`: the last heuristic
\* that fires wins.
FirstReasonLastWins(flt, silent, clipped, weird) ==
    LET h0 == Undefined
        h1 == IF flt.enableSilentFilter /\ silent THEN Silent ELSE h0
        h2 == IF flt.enableClipFilter /\ clipped THEN Clipped ELSE h1
        h3 == IF flt.enableScaleFilter /\ weird THEN ScaleAnomaly ELSE h2
    IN  h3

\* The three filter lines: silent, clipped and weird are what isSilentLike,
\* isHeavilyClipped and isScaleWeird say of the mono mix.
FirstReason(flt, silent, clipped, weird) ==
    LET h0 == Undefined
        h1 == IF flt.enableSilentFilter /\ silent THEN Coalesce(h0, Silent) ELSE h0
        h2 == IF flt.enableClipFilter /\ clipped THEN Coalesce(h1, Clipped) ELSE h1
        h3 == IF flt.enableScaleFilter /\ weird THEN Coalesce(h2, ScaleAnomaly) ELSE h2
    IN  h3

Filtered(chData, mono, flt) ==
    [chData |-> chData,
     hiddenReason |-> FirstReason(flt, isSilentLike(mono), isHeavilyClipped(mono),
                                  isScaleWeird(mono))]

\* The try block past the decode, and the catch: r is what
\* decodeRawToFloat32 returned or threw.
PreviewOf(r, flt) ==
    IF r.threw THEN [chData |-> <<>>, hiddenReason |-> DecodeFailed]
    ELSE Filtered(r.val, downmixMono(r.val), flt)

\* decodePreview without its first line: an FFmpeg candidate goes to
\* decodeRawToFloat32 like any other.
decodePreviewNoRouting(buf, cand, previewFrames, flt, alloc) ==
    PreviewOf(decodeRawToFloat32(buf, cand, <<previewFrames>>, alloc), flt)

\* flt holds the three filter toggles of the component the function closes
\* over; alloc is the allocation outcome handed to decodeRawToFloat32.
decodePreview(buf, cand, previewFrames, flt, alloc) ==
    IF IsFFmpegFmt(cand.fmt)
    THEN [chData |-> <<>>, hiddenReason |-> NeedsExternalDecoder]
    ELSE PreviewOf(decodeRawToFloat32(buf, cand, <<previewFrames>>, alloc), flt)

framesAvailable(buf, cand) == Len(buf) \div (cand.bytesPerSample * cand.ch)

\* sr and secs are the assumedSR and previewSeconds the function closes
\* over; Math.floor(sr * secs) is sr * secs for the integers of the model.
previewFramesFor(buf, cand, sr, secs) ==
    LET maxFrames == framesAvailable(buf, cand)
        want == sr * secs
    IN  Min(maxFrames, want)

\* ============================================================ the App
Null == [id |-> 0, bytes |-> <<>>]
NoHandle == "null"
NoModal == [open |-> FALSE]
Handle == "ffmpeg"

Settings ==
    [assumedSR |-> assumedSR, previewSeconds |-> previewSeconds,
     enableSilentFilter |-> enableSilentFilter, enableClipFilter |-> enableClipFilter,
     enableScaleFilter |-> enableScaleFilter, limitCandidates |-> limitCandidates]

AppInit ==
    /\ arrayBuffer = Null
    /\ assumedSR = 16000
    /\ previewSeconds = 5
    /\ enableSilentFilter = TRUE
    /\ enableClipFilter = TRUE
    /\ enableScaleFilter = TRUE
    /\ limitCandidates = 999
    /\ cards = <<>>
    /\ loading = FALSE
    /\ ffmpegRef = NoHandle
    /\ runs = <<>>
    /\ tasks = <<>>
    /\ nEffects = 0
    /\ nFaults = 0
    /\ ffCalls = 0
    /\ modal = NoModal
    /\ opens = <<>>
    /\ instances = <<>>
    /\ alerts = 0
    /\ nTicks = 0

\* ------------------------------------------------- the preview effect
\* candidates.slice(0, limitCandidates), as the number of candidates kept
SliceLen(limit) ==
    IF limit < 0 THEN Max(Len(candidates) + limit, 0) ELSE Min(limit, Len(candidates))

\* The loop without its `if (pf <= 0) continue`: no candidate is skipped.
NextWithFramesNoSkip(buf, set, i) == i

\* The first index from i on, within the slice, whose candidate has preview
\* frames (the others are skipped by `continue`); past the slice if none.
RECURSIVE NextWithFrames(_, _, _)
NextWithFrames(buf, set, i) ==
    IF i > SliceLen(set.limitCandidates) THEN i
    ELSE IF previewFramesFor(buf.bytes, candidates[i], set.assumedSR, set.previewSeconds) > 0
    THEN i
    ELSE NextWithFrames(buf, set, i + 1)

\* The CardItem pushed for cand with r = decodePreview(...).  by names the
\* closure that made the object and bufId the ArrayBuffer it was decoded
\* from.
CardItem(cand, r, by, bufId) ==
    [cand |-> cand, chData |-> r.chData, hiddenReason |-> r.hiddenReason,
     by |-> by, bufId |-> bufId]

\* The CardItem run rid pushes for candidate i.
RunCard(r, rid, i, alloc) ==
    CardItem(candidates[i],
             decodePreview(r.buf.bytes, candidates[i],
                           previewFramesFor(r.buf.bytes, candidates[i], r.set.assumedSR,
                                            r.set.previewSeconds),
                           r.set, alloc),
             <<"run", rid>>, r.buf.id)

\* The async function with setCards(out) moved into the loop: the list is
\* published after every push.
AdvancePublishEach(r, rid, alloc) ==
    LET j == NextWithFrames(r.buf, r.set, r.i)
    IN  IF j > SliceLen(r.set.limitCandidates)
        THEN [run |-> [r EXCEPT !.i = j, !.pc = "done", !.published = ~r.stopped],
              publish |-> ~r.stopped, loadingOff |-> TRUE, allocated |-> FALSE]
        ELSE LET out2 == Append(r.out, RunCard(r, rid, j, alloc))
             IN  [run |-> [r EXCEPT !.i = j + 1, !.out = out2,
                                    !.pc = IF r.stopped THEN "done" ELSE "await"],
                  publish |-> ~r.stopped, loadingOff |-> FALSE,
                  allocated |-> ~IsFFmpegFmt(candidates[j].fmt)]

\* The body of the effect's async function from the head of its loop (at
\* candidate r.i) to its next await or its end.  publish: it called
\* setCards(out); loadingOff: it called setLoading(false); allocated: its
\* decode reached the allocation of the output arrays.
Advance(r, rid, alloc) ==
    LET j == NextWithFrames(r.buf, r.set, r.i)
    IN  IF j > SliceLen(r.set.limitCandidates)
        THEN [run |-> [r EXCEPT !.i = j, !.pc = "done", !.published = ~r.stopped],
              publish |-> ~r.stopped, loadingOff |-> TRUE, allocated |-> FALSE]
        ELSE LET out2 == Append(r.out, RunCard(r, rid, j, alloc))
             IN  [run |-> [r EXCEPT !.i = j + 1, !.out = out2,
                                    !.pc = IF r.stopped THEN "done" ELSE "await"],
                  publish |-> FALSE, loadingOff |-> FALSE,
                  allocated |-> ~IsFFmpegFmt(candidates[j].fmt)]

\* The allocation outcome of a step: a failure is injected at most MaxFaults
\* times, and only where an allocation takes place.
AllocOutcome(alloc, a) ==
    /\ alloc = "RangeError" => (nFaults < MaxFaults /\ a.allocated)
    /\ nFaults' = IF alloc = "RangeError" THEN nFaults + 1 ELSE nFaults

\* An effect that returns no cleanup: the previous run is never stopped.
CleanupMissing ==
    IF runs = <<>> THEN runs
    ELSE [runs EXCEPT ![Len(runs)] =
            [@ EXCEPT !.preempted = @ \/ runs[Len(runs)].pc = "await"]]

\* The cleanup of the previous effect: () => { stopped = true; }.  An
\* effect that returned early (no buffer) has none.  preempted records
\* that the run was still in flight when it was stopped.
Cleanup ==
    IF runs = <<>> THEN runs
    ELSE [runs EXCEPT ![Len(runs)] =
            [@ EXCEPT !.stopped = TRUE, !.preempted = @ \/ runs[Len(runs)].pc = "await"]]

\* The effect starts a run: a is what its async function does up to its
\* first await.
StartRun(alloc, a) ==
    /\ AllocOutcome(alloc, a)
    /\ runs' = Append(Cleanup, a.run)
    /\ loading' = ~a.loadingOff
    /\ cards' = IF a.publish THEN a.run.out ELSE cards

NewRun(buf, set) ==
    [buf |-> buf, set |-> set, stopped |-> FALSE, out |-> <<>>, i |-> 1, pc |-> "start",
     published |-> FALSE, preempted |-> FALSE, before |-> cards]

\* A dependency of the effect changed: the cleanup of the previous effect
\* runs, then the effect, with the new buffer and settings.  The state
\* update, the cleanup and the effect are one step.
Effect(buf, set) ==
    /\ nEffects < MaxEffects
    /\ nEffects' = nEffects + 1
    /\ IF buf = Null
       THEN /\ cards' = <<>>
            /\ runs' = Cleanup
            /\ UNCHANGED <<loading, nFaults>>
       ELSE \E alloc \in {"ok", "RangeError"} :
              StartRun(alloc, Advance(NewRun(buf, set), Len(runs) + 1, alloc))

SetSettings(set) ==
    /\ assumedSR' = set.assumedSR
    /\ previewSeconds' = set.previewSeconds
    /\ enableSilentFilter' = set.enableSilentFilter
    /\ enableClipFilter' = set.enableClipFilter
    /\ enableScaleFilter' = set.enableScaleFilter
    /\ limitCandidates' = set.limitCandidates
    /\ Effect(arrayBuffer, set)
    /\ UNCHANGED <<arrayBuffer, ffmpegRef, tasks, ffCalls, probe, decVars, nTicks>>

\* onFileChange, from the resolution of f.arrayBuffer() on
LoadFile ==
    \E bytes \in Files :
        LET buf == [id |-> nEffects + 1, bytes |-> bytes]
        IN  /\ arrayBuffer' = buf
            /\ Effect(buf, Settings)
            /\ UNCHANGED <<assumedSR, previewSeconds, enableSilentFilter, enableClipFilter,
                           enableScaleFilter, limitCandidates, ffmpegRef, tasks, ffCalls,
                           probe, decVars, nTicks>>

SetAssumedSR ==
    \E v \in SRs \ {assumedSR} : SetSettings([Settings EXCEPT !.assumedSR = v])

SetPreviewSeconds ==
    \E v \in Secs \ {previewSeconds} : SetSettings([Settings EXCEPT !.previewSeconds = v])

SetLimitCandidates ==
    \E v \in Limits \ {limitCandidates} : SetSettings([Settings EXCEPT !.limitCandidates = v])

SetEnableSilentFilter ==
    \E checked \in {~enableSilentFilter} :
        SetSettings([Settings EXCEPT !.enableSilentFilter = checked])

SetEnableClipFilter ==
    \E checked \in {~enableClipFilter} :
        SetSettings([Settings EXCEPT !.enableClipFilter = checked])

SetEnableScaleFilter ==
    \E checked \in {~enableScaleFilter} :
        SetSettings([Settings EXCEPT !.enableScaleFilter = checked])

\* A run whose end never calls setLoading(false).
ResumeLoadingKept(rid, alloc, a) ==
    /\ AllocOutcome(alloc, a)
    /\ runs' = [runs EXCEPT ![rid] = a.run]
    /\ cards' = IF a.publish THEN a.run.out ELSE cards
    /\ loading' = loading

\* Run rid goes on: a is what its async function does from the head of
\* its loop to its next await or its end.
Resume(rid, alloc, a) ==
    /\ AllocOutcome(alloc, a)
    /\ runs' = [runs EXCEPT ![rid] = a.run]
    /\ cards' = IF a.publish THEN a.run.out ELSE cards
    /\ loading' = IF a.loadingOff THEN FALSE ELSE loading

\* The timer of `await new Promise(res => setTimeout(res, 0))` fires for
\* run rid.
RunStep ==
    \E rid \in 1..Len(runs) : \E alloc \in {"ok", "RangeError"} :
        /\ runs[rid].pc = "await"
        /\ Resume(rid, alloc, Advance(runs[rid], rid, alloc))
        /\ nTicks' = nTicks + 1
        /\ UNCHANGED <<arrayBuffer, assumedSR, previewSeconds, enableSilentFilter,
                       enableClipFilter, enableScaleFilter, limitCandidates, ffmpegRef,
                       tasks, nEffects, ffCalls, probe, decVars>>

\* ------------------------------------------------- the FFmpeg button
encCands ==
    << [id |-> "vox-1ch", fmt |-> "vox", ch |-> 1,
        label |-> "VOX(OKI ADPCM) - 1ch", bytesPerSample |-> 1],
       [id |-> "g721-1ch", fmt |-> "g721", ch |-> 1,
        label |-> "G.721 ADPCM - 1ch", bytesPerSample |-> 1] >>

\* decodeWithFFmpeg, from the read of out.pcm on: s16le to one Float32Array
\* per channel.
PcmToFloat32(pcm, ch) ==
    LET totalFrames == (Len(pcm) \div 2) \div ch
    IN  [c \in 1..ch |->
            [i \in 1..totalFrames |->
                Clamp(Num(getInt16(pcm, ((i - 1) * ch + (c - 1)) * 2, TRUE), 15))]]

\* What the commands of one call of decodeWithFFmpeg come to: ExecError
\* when every command of the list fails, else the bytes read from out.pcm.
ExecError == [ok |-> FALSE, pcm |-> <<>>]
ExecOutput(pcm) == [ok |-> TRUE, pcm |-> pcm]
ExecOutcomes == {ExecError} \cup {ExecOutput(pcm) : pcm \in FFOutputs}

\* What one call of decodeWithFFmpeg comes to.  load is what getFFmpeg's
\* loading does when no handle is cached ("ok": one variant loads, "fail":
\* none does); exec is what its commands come to.
decodeWithFFmpeg(cand, load, exec) ==
    IF ffmpegRef = NoHandle /\ load = "fail" THEN Thrown
    ELSE IF ~exec.ok THEN Thrown
    ELSE IF Len(exec.pcm) = 0 THEN Thrown
    ELSE Returned(PcmToFloat32(exec.pcm, cand.ch))

\* ch.length > want ? ch.slice(0, want) : ch
PreviewSlice(ch, want) == IF Len(ch) > want THEN SubSeq(ch, 1, want) ELSE ch

\* setCards(prev => [...prev.filter(c => !ids.has(c.cand.id)), ...added])
PatchCards(prev, added) ==
    LET ids == {added[i].cand.id : i \in 1..Len(added)}
    IN  SelectSeq(prev, LAMBDA c : c.cand.id \notin ids) \o added

\* A click on the button: onTryFFmpegDecode runs to its first await, inside
\* its first call of decodeWithFFmpeg.
PressFFmpeg ==
    /\ arrayBuffer # Null
    /\ Len(tasks) < MaxPress
    /\ tasks' = Append(tasks, [buf |-> arrayBuffer, assumedSR |-> assumedSR,
                               previewSeconds |-> previewSeconds, k |-> 1,
                               added |-> <<>>, pc |-> "await"])
    /\ ffCalls' = ffCalls + 1
    /\ UNCHANGED <<arrayBuffer, assumedSR, previewSeconds, enableSilentFilter,
                   enableClipFilter, enableScaleFilter, limitCandidates, cards, loading,
                   ffmpegRef, runs, nEffects, nFaults, probe, decVars, nTicks>>

\* The call of decodeWithFFmpeg that task t awaits settles; the handler
\* goes on to its next call, or past its loop to setCards or alert.
TaskStep ==
    \E t \in 1..Len(tasks) : \E load \in {"ok", "fail"} :
    \E exec \in ExecOutcomes :
        LET task == tasks[t]
            cand == encCands[task.k]
            full == decodeWithFFmpeg(cand, load, exec)
            want == task.assumedSR * task.previewSeconds
            card == [cand |-> cand,
                     chData |-> [c \in 1..Len(full.val) |-> PreviewSlice(full.val[c], want)],
                     hiddenReason |-> Undefined,
                     by |-> <<"ffmpeg", t>>, bufId |-> task.buf.id]
            added == IF full.threw THEN task.added ELSE Append(task.added, card)
            last == task.k = Len(encCands)
        IN  /\ task.pc = "await"
            /\ (ffmpegRef # NoHandle) => load = "ok"
            /\ (ffmpegRef = NoHandle /\ load = "fail") => exec = ExecError
            /\ ffmpegRef' = IF load = "ok" THEN Handle ELSE ffmpegRef
            /\ tasks' = [tasks EXCEPT ![t] =
                            [@ EXCEPT !.added = added,
                                      !.k = IF last THEN @ ELSE @ + 1,
                                      !.pc = IF last THEN "done" ELSE "await"]]
            /\ ffCalls' = IF last THEN ffCalls ELSE ffCalls + 1
            /\ cards' = IF last /\ added # <<>> THEN PatchCards(cards, added) ELSE cards
            /\ UNCHANGED <<arrayBuffer, assumedSR, previewSeconds, enableSilentFilter,
                           enableClipFilter, enableScaleFilter, limitCandidates, loading,
                           runs, nEffects, nFaults, probe, decVars, nTicks>>

Init == AppInit /\ probe = [op |-> "idle"]

Next ==
    \/ LoadFile
    \/ SetAssumedSR
    \/ SetPreviewSeconds
    \/ SetLimitCandidates
    \/ SetEnableSilentFilter
    \/ SetEnableClipFilter
    \/ SetEnableScaleFilter
    \/ RunStep
    \/ PressFFmpeg
    \/ TaskStep

Spec == Init /\ [][Next]_vars

RunPending == \E rid \in 1..Len(runs) : runs[rid].pc = "await"

\* A pending timer callback runs: the steps that count a tick are those of
\* RunStep, which is enabled exactly when a run is suspended in its await.
TimerFires == RunPending /\ nTicks' = nTicks + 1

\* The timers of setTimeout(res, 0) fire: a run that is suspended in its
\* await is resumed by the event loop.
LiveSpec == Init /\ [][Next]_vars /\ WF_nTicks(TimerFires)

\* ============================================ the detail view (modal)
\* getFFmpeg's sources, and its loading variants in the order it tries
\* them: each source with the worker, then without.
bases == <<"unpkg.com umd", "cdn.jsdelivr.net umd", "unpkg.com esm", "cdn.jsdelivr.net esm">>

variants ==
    [v \in 1..(2 * Len(bases)) |-> [base |-> bases[(v + 1) \div 2], worker |-> v % 2 = 1]]

\* The commands decodeWithFFmpeg tries, by their input hints.
tries(fmt) ==
    IF fmt = "vox"
    THEN <<"", "-f vox", "-f adpcm_ima_oki">>
    ELSE <<"-f g726", "-f g726 -bits_per_coded_sample 4", "-f g726 -b:a 32k",
           "-f g726 -bit_rate 32000", "">>

inName(fmt) == IF fmt = "vox" THEN "in.vox" ELSE "in.g726"
outName == "out.pcm"

\* A file of an FFmpeg instance: its bytes, and the invocation that wrote
\* them; by = 0 where nothing was written.
NoFile == [by |-> 0, bytes |-> <<>>]
NoFiles == [n \in {"in.vox", "in.g726", outName} |-> NoFile]

\* const ffTry = new FFmpeg(), once loaded: the n-th instance of the session.
NewInstance(n) ==
    [handle |-> "ffmpeg#" \o ToString(n), files |-> NoFiles]

\* The instance ref.current points to.
InstanceOf(handle) == CHOOSE n \in 1..Len(instances) : instances[n].handle = handle

\* An invocation of openModal(cand) at its entry; buf and sr are the
\* arrayBuffer and assumedSR of its closure.  v is the variant getFFmpeg
\* is loading and t the command decodeWithFFmpeg is running (0 outside
\* their loops), hist the outcomes of its commands so far, ff its FFmpeg
\* instance, cached the handle getFFmpeg found in ref.current, got the
\* file it read from out.pcm.
NewOpen(cand) ==
    [cand |-> cand, buf |-> arrayBuffer, sr |-> assumedSR, pc |-> "start",
     v |-> 0, t |-> 0, hist |-> <<>>, ff |-> 0, cached |-> NoHandle, got |-> NoFile]

\* setModal({ cand, realSR: assumedSR, fullCh, playing: false }) by
\* invocation c; from is the invocation that produced the samples.
Modal(o, c, fullCh, from) ==
    [open |-> TRUE, cand |-> o.cand, realSR |-> o.sr, fullCh |-> fullCh,
     playing |-> FALSE, by |-> c, from |-> from]

\* decodeFull threw: openModal's catch alerts and returns.
Fail(c) ==
    /\ opens' = [opens EXCEPT ![c].pc = "failed"]
    /\ alerts' = alerts + 1
    /\ modal' = modal

\* openModal on a candidate decodeRawToFloat32 decodes: the decode is
\* synchronous and the await of its result resolves in the same task.
OpenRaw(cand, alloc, full) ==
    /\ alloc = "RangeError" => (nFaults < MaxFaults /\ full.threw)
    /\ nFaults' = IF alloc = "RangeError" THEN nFaults + 1 ELSE nFaults
    /\ opens' = Append(opens, [NewOpen(cand) EXCEPT
                                  !.pc = IF full.threw THEN "failed" ELSE "done"])
    /\ alerts' = IF full.threw THEN alerts + 1 ELSE alerts
    /\ modal' = IF full.threw THEN modal
                ELSE Modal(NewOpen(cand), Len(opens) + 1, full.val, Len(opens) + 1)
    /\ UNCHANGED <<ffmpegRef, instances>>

\* openModal on a vox or g721 candidate, up to the first await of
\* getFFmpeg: a cached handle is returned, else the loading starts.
OpenExternal(cand) ==
    /\ opens' = Append(opens,
                    IF ffmpegRef # NoHandle
                    THEN [NewOpen(cand) EXCEPT !.pc = "write", !.cached = ffmpegRef,
                                               !.ff = InstanceOf(ffmpegRef)]
                    ELSE [NewOpen(cand) EXCEPT !.pc = "load", !.v = 1])
    /\ UNCHANGED <<modal, alerts, ffmpegRef, instances, nFaults>>

\* A click on a card.  The detail view covers the cards while it is open.
OpenModal ==
    /\ arrayBuffer # Null
    /\ modal = NoModal
    /\ Len(opens) < MaxOpens
    /\ \E j \in 1..Len(cards) : \E alloc \in {"ok", "RangeError"} :
          IF IsFFmpegFmt(cards[j].cand.fmt)
          THEN alloc = "ok" /\ OpenExternal(cards[j].cand)
          ELSE OpenRaw(cards[j].cand, alloc,
                       decodeRawToFloat32(arrayBuffer.bytes, cards[j].cand, <<>>, alloc))
    /\ UNCHANGED <<arrayBuffer, assumedSR, previewSeconds, enableSilentFilter,
                   enableClipFilter, enableScaleFilter, limitCandidates, cards, loading,
                   runs, tasks, nEffects, ffCalls, probe, nTicks>>

\* closeModal
CloseModal ==
    /\ modal # NoModal
    /\ modal' = NoModal
    /\ UNCHANGED <<arrayBuffer, assumedSR, previewSeconds, enableSilentFilter,
                   enableClipFilter, enableScaleFilter, limitCandidates, cards, loading,
                   ffmpegRef, runs, tasks, nEffects, nFaults, ffCalls, probe, opens,
                   instances, alerts, nTicks>>

\* getFFmpeg of invocation c: the load of variant v settles.  A success
\* stores the instance in ref.current and returns it; a failure goes on
\* to the next variant, or throws after the last.
LoadStep ==
    /\ \E c \in 1..Len(opens) : \E ok \in BOOLEAN :
          /\ opens[c].pc = "load"
          /\ IF ok
             THEN /\ instances' = Append(instances, NewInstance(Len(instances) + 1))
                  /\ ffmpegRef' = NewInstance(Len(instances) + 1).handle
                  /\ opens' = [opens EXCEPT ![c].pc = "write", ![c].v = 0,
                                            ![c].ff = Len(instances) + 1]
                  /\ UNCHANGED <<modal, alerts>>
             ELSE IF opens[c].v < Len(variants)
             THEN /\ opens' = [opens EXCEPT ![c].v = @ + 1]
                  /\ UNCHANGED <<modal, alerts, instances, ffmpegRef>>
             ELSE /\ Fail(c)
                  /\ UNCHANGED <<instances, ffmpegRef>>
    /\ UNCHANGED <<arrayBuffer, assumedSR, previewSeconds, enableSilentFilter,
                   enableClipFilter, enableScaleFilter, limitCandidates, cards, loading,
                   runs, tasks, nEffects, nFaults, ffCalls, probe, nTicks>>

\* decodeWithFFmpeg of invocation c: await ff.writeFile(inName, buf).
WriteStep ==
    /\ \E c \in 1..Len(opens) :
          /\ opens[c].pc = "write"
          /\ instances' = [instances EXCEPT
                              ![opens[c].ff].files[inName(opens[c].cand.fmt)] =
                                  [by |-> c, bytes |-> opens[c].buf.bytes]]
          /\ opens' = [opens EXCEPT ![c].pc = "exec", ![c].t = 1]
    /\ UNCHANGED <<arrayBuffer, assumedSR, previewSeconds, enableSilentFilter,
                   enableClipFilter, enableScaleFilter, limitCandidates, cards, loading,
                   ffmpegRef, runs, tasks, nEffects, nFaults, ffCalls, probe, modal,
                   alerts, nTicks>>

\* decodeWithFFmpeg of invocation c: await ff.exec(args) of command t
\* settles.  A rejection goes on to the next command, or throws after the
\* last; a command that ran has written out.pcm and ends the loop.
ExecStep ==
    /\ \E c \in 1..Len(opens) : \E exec \in ExecOutcomes :
          /\ opens[c].pc = "exec"
          /\ IF exec.ok
             THEN /\ instances' = [instances EXCEPT
                                      ![opens[c].ff].files[outName] =
                                          [by |-> c, bytes |-> exec.pcm]]
                  /\ opens' = [opens EXCEPT
                                  ![c].pc = "read",
                                  ![c].hist = Append(@, IF exec.pcm = <<>> THEN "empty"
                                                        ELSE "output")]
                  /\ UNCHANGED <<modal, alerts>>
             ELSE IF opens[c].t < Len(tries(opens[c].cand.fmt))
             THEN /\ opens' = [opens EXCEPT ![c].t = @ + 1,
                                            ![c].hist = Append(@, "error")]
                  /\ UNCHANGED <<modal, alerts, instances>>
             ELSE /\ opens' = [opens EXCEPT ![c].pc = "failed",
                                            ![c].hist = Append(@, "error")]
                  /\ alerts' = alerts + 1
                  /\ UNCHANGED <<modal, instances>>
    /\ UNCHANGED <<arrayBuffer, assumedSR, previewSeconds, enableSilentFilter,
                   enableClipFilter, enableScaleFilter, limitCandidates, cards, loading,
                   ffmpegRef, runs, tasks, nEffects, nFaults, ffCalls, probe, nTicks>>

\* decodeWithFFmpeg of invocation c from await ff.readFile(outName) on,
\* and openModal after its await: an empty out.pcm throws, else the
\* samples are converted and setModal is called.
ReadStep ==
    /\ \E c \in 1..Len(opens) :
          /\ opens[c].pc = "read"
          /\ IF instances[opens[c].ff].files[outName].bytes = <<>>
             THEN Fail(c)
             ELSE /\ opens' = [opens EXCEPT
                                  ![c].pc = "done",
                                  ![c].got = instances[opens[c].ff].files[outName]]
                  /\ modal' = Modal(opens[c], c,
                                    PcmToFloat32(instances[opens[c].ff].files[outName].bytes,
                                                 opens[c].cand.ch),
                                    instances[opens[c].ff].files[outName].by)
                  /\ alerts' = alerts
    /\ UNCHANGED <<arrayBuffer, assumedSR, previewSeconds, enableSilentFilter,
                   enableClipFilter, enableScaleFilter, limitCandidates, cards, loading,
                   ffmpegRef, runs, tasks, nEffects, nFaults, ffCalls, probe, instances,
                   nTicks>>

\* The first file of the session is chosen.
FirstLoadFile == nEffects < MaxLoads /\ LoadFile

ModalNext ==
    \/ FirstLoadFile
    \/ RunStep
    \/ OpenModal
    \/ CloseModal
    \/ LoadStep
    \/ WriteStep
    \/ ExecStep
    \/ ReadStep

ModalSpec == Init /\ [][ModalNext]_vars

\* ============================================= the codec specification
\* The pure functions, each applied once to an input drawn from a bounded
\* set; probe records the call and what it returned.
Buffers == UNION {[1..n -> Bytes] : n \in 1..MaxLen}

Toggles ==
    [enableSilentFilter : BOOLEAN, enableClipFilter : BOOLEAN, enableScaleFilter : BOOLEAN]

\* decodePreview as the preview effect calls it: on a candidate with
\* previewFramesFor(...) > 0.
DecodePreviewCall ==
    /\ probe.op = "idle"
    /\ \E buf \in Buffers : \E k \in 1..Len(candidates) : \E flt \in Toggles :
       \E sr \in SRs :
          LET previewFrames == previewFramesFor(buf, candidates[k], sr, 1)
          IN  /\ previewFrames > 0
              /\ probe' = [op |-> "decodePreview", buf |-> buf, k |-> k, flt |-> flt,
                           previewFrames |-> previewFrames,
                           res |-> decodePreview(buf, candidates[k], previewFrames, flt,
                                                 "ok")]
    /\ UNCHANGED appVars

\* DataView.setInt16(offset, s, true)
Int16LE(s) == <<s % 256, (s % 65536) \div 256>>

RECURSIVE PcmBytes(_)
PcmBytes(samples) ==
    IF samples = <<>> THEN <<>>
    ELSE Int16LE(Head(samples)) \o PcmBytes(Tail(samples))

\* floatTo16PCMInterleaved(decodeRawToFloat32(buf, cand, undefined)) for a
\* 16le candidate and a file of whole frames, as saveAsWav computes it from
\* what openModal decoded.
RoundTripCall ==
    /\ probe.op = "idle"
    /\ UNCHANGED appVars
    /\ \E n \in 1..MaxSamples : \E samples \in [1..n -> Samples] :
       \E ch \in {chs[c] : c \in 1..Len(chs)} :
        /\ n % ch = 0
        /\ probe' = [op |-> "roundTrip", samples |-> samples, ch |-> ch,
                     pcm16 |-> floatTo16PCMInterleaved(
                                  decodeRawToFloat32(PcmBytes(samples), candidates[ch],
                                                     <<>>, "ok").val)]

G711Call ==
    /\ probe.op = "idle"
    /\ UNCHANGED appVars
    /\ \E law \in {"mulaw", "alaw"} : \E u \in 0..255 :
        probe' = [op |-> "g711", law |-> law, u |-> u,
                  s16 |-> IF law = "mulaw" THEN muLawToLinear(u) ELSE aLawToLinear(u)]

\* The frame limits decodeRawToFloat32 is called with: <<>> is undefined.
FrameLimits == {<<>>, <<0>>, <<1>>, <<2>>, <<80000>>}

\* decodeRawToFloat32 on a candidate it decodes itself, as decodeFull
\* (no limit) and decodePreview (a limit) call it.
DecodeRawCall ==
    /\ probe.op = "idle"
    /\ UNCHANGED appVars
    /\ \E buf \in Buffers \cup {<<>>} : \E k \in 1..Len(candidates) :
       \E previewFrames \in FrameLimits :
        /\ ~IsFFmpegFmt(candidates[k].fmt)
        /\ probe' = [op |-> "decodeRaw", buf |-> buf, k |-> k,
                     previewFrames |-> previewFrames,
                     res |-> decodeRawToFloat32(buf, candidates[k], previewFrames, "ok")]

CodecNext ==
    \/ DecodePreviewCall
    \/ DecodeRawCall
    \/ RoundTripCall
    \/ G711Call

CodecSpec == Init /\ [][CodecNext]_vars

\* ============================================================ properties
AdpcmIds == {encCands[k].id : k \in 1..Len(encCands)}

\* The cards of a list that preview runs made.
RunMade(list) == SelectSeq(list, LAMBDA c : c.by[1] = "run")

\* The cards of a list that preview runs made, less those of the candidates
\* ids.
Without(list, ids) == SelectSeq(list, LAMBDA c : c.by[1] = "run" /\ c.cand.id \notin ids)

\* The newest run was started while its predecessor was in flight.
StartedOverRunInFlight == Len(runs) >= 2 /\ runs[Len(runs) - 1].preempted

\* ------------------------------------------------------------------ C1
\* C1 as stated: while run B, started when run A was in flight, is the
\* newest run, the published list is the list published before B started
\* or the complete output of B.
C1_BeforeOrOutput ==
    StartedOverRunInFlight =>
        LET B == runs[Len(runs)]
        IN  cards = B.before \/ (B.published /\ cards = B.out)

\* C1 as amended: the published list never holds a card of a run that was
\* stopped in flight, never cards of two runs, and while run B, started
\* when run A was in flight, is the newest run, its cards made by preview
\* runs are those of the list published before B started or those of the
\* complete output of B, less the cards of the FFmpeg candidates that
\* onTryFFmpegDecode replaced.
C1_NoMixing ==
    /\ \A i \in 1..Len(cards) :
          cards[i].by[1] = "run" => ~runs[cards[i].by[2]].preempted
    /\ \A i, j \in 1..Len(cards) :
          (cards[i].by[1] = "run" /\ cards[j].by[1] = "run") => cards[i].by = cards[j].by
    /\ StartedOverRunInFlight =>
          LET B == runs[Len(runs)]
          IN  \E ids \in SUBSET AdpcmIds :
                \/ RunMade(cards) = Without(B.before, ids)
                \/ B.published /\ RunMade(cards) = Without(B.out, ids)

\* Run A was stopped in flight with cards in its out, went on to its
\* return, and the run started over it published its own output.
C1_Witness ==
    \E a \in 1..Len(runs) : \E b \in 1..Len(runs) :
        /\ a < b
        /\ runs[a].preempted /\ runs[a].pc = "done" /\ runs[a].out # <<>>
        /\ runs[b].published /\ runs[b].out # <<>>
        /\ cards = runs[b].out

\* ------------------------------------------------------------------ C2
\* C2: once a preview run over the loaded buffer has published, every
\* card of the published list was decoded from that buffer.
C2_NoStaleVerdict ==
    (\E r \in 1..Len(runs) : runs[r].published /\ runs[r].buf.id = arrayBuffer.id)
        => \A i \in 1..Len(cards) : cards[i].bufId = arrayBuffer.id

\* ------------------------------------------------------------------ C3
\* Run r publishes in this step: the list becomes its complete output, made
\* over the current buffer and settings, of at most limitCandidates cards,
\* all of the first limitCandidates candidates.
PublishedBy(r) ==
    /\ runs'[r].published /\ runs'[r].pc = "done"
    /\ r > Len(runs) \/ ~runs[r].published
    /\ cards' = runs'[r].out
    /\ runs'[r].buf = arrayBuffer' /\ runs'[r].set = Settings'
    /\ Len(cards') <= limitCandidates'
    /\ \A i \in 1..Len(cards') :
          /\ cards'[i].by = <<"run", r>>
          /\ \E k \in 1..Len(candidates) :
                k <= limitCandidates' /\ cards'[i].cand = candidates[k]

\* Invocation t of onTryFFmpegDecode ends in this step with decoded cards,
\* all of FFmpeg candidates: the list loses its cards of those candidates
\* and gains the decoded ones at its end.
PatchedBy(t) ==
    LET added == tasks'[t].added
    IN  /\ tasks[t].pc = "await" /\ tasks'[t].pc = "done"
        /\ added # <<>>
        /\ \A j \in 1..Len(added) :
              added[j].cand.id \in AdpcmIds /\ added[j].by = <<"ffmpeg", t>>
        /\ cards' = SelectSeq(cards, LAMBDA c :
                                \A j \in 1..Len(added) : added[j].cand.id # c.cand.id)
                    \o added

\* C3 as stated: every change of the published list replaces the whole
\* list by the output of one preview run over the current buffer and
\* settings.
C3_WholeListOnly ==
    [][cards' # cards => \E r \in 1..Len(runs') : PublishedBy(r)]_vars

\* C3 as amended: every change of the published list is the replacement of
\* the whole list by the complete output of one preview run over the
\* current buffer and settings, or the patch of onTryFFmpegDecode, which
\* removes the cards of the FFmpeg candidates it decoded and appends the
\* decoded cards.
C3_ReplacedOrPatched ==
    [][cards' # cards =>
          \/ \E r \in 1..Len(runs') : PublishedBy(r)
          \/ \E t \in 1..Len(tasks') : PatchedBy(t)]_vars

\* A run's published cards next to a card that onTryFFmpegDecode added.
C3_Witness ==
    /\ \E i \in 1..Len(cards) :
          cards[i].by[1] = "run" /\ runs[cards[i].by[2]].published
    /\ \E i \in 1..Len(cards) : cards[i].by[1] = "ffmpeg"

\* ------------------------------------------------------------------ C4
\* The candidates, in enumeration order, among the first limit whose
\* preview frame count is greater than 0.
Eligible(bytes, set) ==
    SelectSeq([k \in 1..Len(candidates) |-> k],
              LAMBDA k :
                 /\ k <= set.limitCandidates
                 /\ Min(Len(bytes) \div (candidates[k].bytesPerSample * candidates[k].ch),
                        set.assumedSR * set.previewSeconds) > 0)

\* C4: the output of a run that published holds one card per eligible
\* candidate, in enumeration order, and none for the others; a card is a
\* DecodeFailed verdict with an empty buffer, or the verdict the decode of
\* its candidate gives when nothing fails.
C4_OneVerdictEach ==
    \A r \in 1..Len(runs) :
        runs[r].published =>
            LET e == Eligible(runs[r].buf.bytes, runs[r].set)
                out == runs[r].out
            IN  /\ Len(out) = Len(e)
                /\ \A j \in 1..Len(out) :
                      LET cand == candidates[e[j]]
                          good == decodePreview(
                                      runs[r].buf.bytes, cand,
                                      Min(Len(runs[r].buf.bytes)
                                             \div (cand.bytesPerSample * cand.ch),
                                          runs[r].set.assumedSR * runs[r].set.previewSeconds),
                                      runs[r].set, "ok")
                      IN  /\ out[j].cand = cand
                          /\ \/ out[j].hiddenReason = DecodeFailed /\ out[j].chData = <<>>
                             \/ /\ out[j].hiddenReason = good.hiddenReason
                                /\ out[j].chData = good.chData

\* A published output with a DecodeFailed card between two decoded ones,
\* and with candidates skipped for want of frames.
C4_Witness ==
    \E r \in 1..Len(runs) :
        /\ runs[r].published /\ cards = runs[r].out
        /\ Len(cards) < SliceLen(runs[r].set.limitCandidates)
        /\ \E j \in 2..(Len(cards) - 1) :
              /\ cards[j].hiddenReason = DecodeFailed
              /\ cards[j - 1].chData # <<>>
              /\ cards[j + 1].chData # <<>>

\* ------------------------------------------------------------------ C5
\* C5: every card a preview run makes for an FFmpeg candidate has the
\* hidden reason NeedsExternalDecoder and no samples, and a step that calls
\* decodeWithFFmpeg or sets the cached handle is a step of the button's
\* handler, never of a preview run.
C5_ExternalOnlyOnDemand ==
    [][/\ \A r \in 1..Len(runs') : \A j \in 1..Len(runs'[r].out) :
            runs'[r].out[j].cand.id \in AdpcmIds =>
                /\ runs'[r].out[j].hiddenReason = NeedsExternalDecoder
                /\ runs'[r].out[j].chData = <<>>
       /\ (ffCalls' # ffCalls \/ ffmpegRef' # ffmpegRef) =>
            (runs' = runs /\ tasks' # tasks)]_vars

\* A published list with the cards of both FFmpeg candidates, made by the
\* run, while the decoder was never called.
C5_Witness ==
    /\ ffCalls = 0 /\ ffmpegRef = NoHandle
    /\ \E r \in 1..Len(runs) :
          /\ runs[r].published /\ cards = runs[r].out
          /\ \A id \in AdpcmIds : \E j \in 1..Len(cards) : cards[j].cand.id = id

\* ------------------------------------------------------------------ C6
\* The first reason, in the order Silent, Clipped, ScaleAnomaly, whose
\* heuristic is enabled and fires on the mono mix of chData.
PriorityReason(flt, chData) ==
    LET mono == downmixMono(chData)
    IN  IF flt.enableSilentFilter /\ isSilentLike(mono) THEN Silent
        ELSE IF flt.enableClipFilter /\ isHeavilyClipped(mono) THEN Clipped
        ELSE IF flt.enableScaleFilter /\ isScaleWeird(mono) THEN ScaleAnomaly
        ELSE Undefined

\* C6: the verdict of a decoded preview carries the first reason, in the
\* order Silent, Clipped, ScaleAnomaly, among the heuristics that are
\* enabled and fire, and none when no enabled heuristic fires.
C6_FirstEnabledFiring ==
    (probe.op = "decodePreview" /\ ~IsFFmpegFmt(candidates[probe.k].fmt)) =>
        probe.res.hiddenReason = PriorityReason(probe.flt, probe.res.chData)

\* All three heuristics fire and the first is disabled: the verdict is
\* Clipped, not ScaleAnomaly.
C6_Witness ==
    /\ probe.op = "decodePreview"
    /\ ~probe.flt.enableSilentFilter /\ probe.flt.enableClipFilter
    /\ probe.flt.enableScaleFilter
    /\ probe.res.chData # <<>>
    /\ isSilentLike(downmixMono(probe.res.chData))
    /\ isHeavilyClipped(downmixMono(probe.res.chData))
    /\ isScaleWeird(downmixMono(probe.res.chData))
    /\ probe.res.hiddenReason = Clipped

\* ------------------------------------------------------------------ C7
\* decodePreview was called on a buffer of 0x80 bytes and the 8u mono
\* candidate.
AllHex80AsU8Mono ==
    /\ probe.op = "decodePreview"
    /\ candidates[probe.k].id = "8u-1ch"
    /\ \A i \in 1..Len(probe.buf) : probe.buf[i] = 128

\* C7 as stated: a buffer of 0x80 bytes decoded as 8u mono gets the verdict
\* Silent under every combination of the three toggles.
C7_SilentAlways ==
    AllHex80AsU8Mono => probe.res.hiddenReason = Silent

\* C7 as amended: a buffer of 0x80 bytes decoded as 8u mono gets the
\* verdict Silent under the combinations with enableSilentFilter set; with
\* it cleared it gets ScaleAnomaly when enableScaleFilter is set and no
\* hidden reason otherwise.
C7_SilentWhenEnabled ==
    AllHex80AsU8Mono =>
        probe.res.hiddenReason =
            IF probe.flt.enableSilentFilter THEN Silent
            ELSE IF probe.flt.enableScaleFilter THEN ScaleAnomaly
            ELSE Undefined

\* The buffer of 0x80 bytes with only the clip filter set: no hidden
\* reason.
C7_Witness ==
    /\ AllHex80AsU8Mono
    /\ Len(probe.buf) = MaxLen
    /\ ~probe.flt.enableSilentFilter /\ probe.flt.enableClipFilter
    /\ ~probe.flt.enableScaleFilter
    /\ probe.res.hiddenReason = Undefined

\* ------------------------------------------------------------------ C8
\* C8: the 16-bit samples that floatTo16PCMInterleaved makes of the decode
\* of a 16le file are the samples of the file.
C8_RoundTripExact ==
    probe.op = "roundTrip" => probe.pcm16 = probe.samples

\* ------------------------------------------------------------------ C9
\* The decoding of ITU-T G.711: the value of the mu-law code u.
G711MuLawReference(u) ==
    LET c == 255 - u
        t == (((c % 16) * 8) + 132) * (2 ^ ((c % 128) \div 16))
    IN  IF c >= 128 THEN 132 - t ELSE t - 132

\* The decoding of ITU-T G.711: the value of the A-law code a.
G711ALawReference(a) ==
    LET c == BitXor(a, 85, 8)
        seg == (c % 128) \div 16
        t == (c % 16) * 16
        mag == IF seg = 0 THEN t + 8
               ELSE IF seg = 1 THEN t + 264
               ELSE (t + 264) * (2 ^ (seg - 1))
    IN  IF c >= 128 THEN mag ELSE 0 - mag

\* C9: muLawToLinear(0xFF) and aLawToLinear(0xD5) are the values G.711
\* gives for the two codes.
C9_G711ReferenceValues ==
    /\ (probe.op = "g711" /\ probe.law = "mulaw" /\ probe.u = 255)
          => probe.s16 = G711MuLawReference(255)
    /\ (probe.op = "g711" /\ probe.law = "alaw" /\ probe.u = 213)
          => probe.s16 = G711ALawReference(213)

\* ----------------------------------------------------------------- C10
CandidateIds == [k \in 1..Len(candidates) |-> candidates[k].id]

DistinctIds == \A i, j \in 1..Len(candidates) : CandidateIds[i] = CandidateIds[j] => i = j

\* C10 as stated: the list a candidate was taken from holds 18 candidates
\* with pairwise distinct identifiers, 16 of the linear and companded
\* encodings, each with 1 channel then 2, then the 2 mono FFmpeg
\* candidates.
C10_EighteenCandidates ==
    probe.op = "decodePreview" =>
        /\ Len(candidates) = 18
        /\ DistinctIds
        /\ \A k \in 1..16 :
              ~IsFFmpegFmt(candidates[k].fmt) /\ candidates[k].ch = 2 - (k % 2)
        /\ candidates[17].id = "vox-1ch" /\ candidates[18].id = "g721-1ch"

\* C10 as amended: the list a candidate was taken from holds 20 candidates
\* with pairwise distinct identifiers, 18 of the nine linear and companded
\* encodings in the order 16le, 16be, 8u, 24le, 24be, 32le, 32f, mulaw,
\* alaw, each with 1 channel then 2, then the 2 mono FFmpeg candidates vox
\* and g721.
C10_TwentyCandidates ==
    probe.op = "decodePreview" =>
    /\ CandidateIds = << "16le-1ch", "16le-2ch", "16be-1ch", "16be-2ch", "8u-1ch",
                         "8u-2ch", "24le-1ch", "24le-2ch", "24be-1ch", "24be-2ch",
                         "32le-1ch", "32le-2ch", "32f-1ch", "32f-2ch", "mulaw-1ch",
                         "mulaw-2ch", "alaw-1ch", "alaw-2ch", "vox-1ch", "g721-1ch" >>
    /\ DistinctIds
    /\ \A k \in 1..18 :
          /\ candidates[k].fmt \in SupportedFmts
          /\ candidates[k].ch = 2 - (k % 2)
          /\ candidates[k].id = CandId(candidates[k].fmt, candidates[k].ch)
    /\ \A k \in 19..20 : IsFFmpegFmt(candidates[k].fmt) /\ candidates[k].ch = 1

\* decodePreview was called on the last candidate of the list.
C10_Witness ==
    /\ probe.op = "decodePreview"
    /\ probe.k = 20
    /\ candidates[probe.k].id = "g721-1ch"

\* ----------------------------------------------------------------- C15
\* C15: decodeRawToFloat32 returns one sample buffer per channel of the
\* candidate, each of length min(available frames, frame limit), the
\* available frames when no limit is given, also when that length is 0.
C15_OneBufferPerChannel ==
    probe.op = "decodeRaw" =>
        LET cand == candidates[probe.k]
            avail == Len(probe.buf) \div (cand.bytesPerSample * cand.ch)
            n == IF probe.previewFrames = <<>> THEN avail
                 ELSE Min(avail, probe.previewFrames[1])
        IN  /\ ~probe.res.threw
            /\ Len(probe.res.val) = cand.ch
            /\ \A c \in 1..Len(probe.res.val) : Len(probe.res.val[c]) = n

\* ----------------------------------------------------------------- C16
\* C16: a run that has been marked stale writes neither the card list nor
\* the loading indicator, so loading is true for as long as the newest
\* run has not finished.
C16_StaleRunWritesNothing ==
    /\ (runs # <<>> /\ runs[Len(runs)].pc = "await") => loading
    /\ \A rid \in 1..Len(runs) :
          (runs[rid].stopped /\ runs[rid].preempted) => ~runs[rid].published

\* ----------------------------------------------------------------- C17
\* Run rid has finished and the shared state is its result: the cards are
\* its output, one card per eligible candidate of the current buffer and
\* settings, and loading is off.
Settled(rid) ==
    /\ runs[rid].pc = "done" /\ runs[rid].published
    /\ runs[rid].buf = arrayBuffer /\ runs[rid].set = Settings
    /\ cards = runs[rid].out
    /\ Len(cards) = Len(Eligible(arrayBuffer.bytes, Settings))
    /\ ~loading

\* C17: a run that is in flight and is the most recently started one
\* eventually finishes with the cards equal to its complete output for
\* the current buffer and settings and with loading off, unless the buffer
\* or a setting changes first (which marks it stale), however many
\* earlier runs were cancelled.
C17_NewestRunSettles ==
    \A rid \in 1..MaxEffects :
        (Len(runs) >= rid /\ runs[rid].pc = "await" /\ ~runs[rid].stopped)
            ~> (Len(runs) >= rid /\ (runs[rid].stopped \/ Settled(rid)))

\* The second run has settled after the first one was cancelled in flight.
C17_Witness ==
    /\ Len(runs) >= 2
    /\ runs[1].preempted
    /\ Len(runs[2].out) >= 2
    /\ Settled(2)

\* ----------------------------------------------------------------- C11
\* C11: the cached handle is set only by a load that succeeded and, once
\* set, is never replaced; an invocation that finds a handle cached
\* returns it without loading; one that finds none starts at the first
\* variant, and throws only after the last variant failed, leaving the
\* cache as it was.
C11_CachedHandleReused ==
    [][ /\ ffmpegRef # NoHandle => ffmpegRef' = ffmpegRef
        /\ ffmpegRef' # ffmpegRef => Len(instances') = Len(instances) + 1
        /\ \A c \in 1..Len(opens') :
              (c > Len(opens) /\ IsFFmpegFmt(opens'[c].cand.fmt)) =>
                 IF ffmpegRef # NoHandle
                 THEN /\ opens'[c].pc = "write"
                      /\ instances[opens'[c].ff].handle = ffmpegRef
                 ELSE opens'[c].pc = "load" /\ opens'[c].v = 1
        /\ \A c \in 1..Len(opens) :
              (opens[c].pc = "load" /\ opens'[c].pc = "failed") =>
                 (opens[c].v = Len(variants) /\ ffmpegRef' = ffmpegRef)
      ]_vars

\* ----------------------------------------------------------------- C12
\* C12: a full decode of a vox or g721 candidate that returned read a
\* non-empty out.pcm written by a command of this invocation, the first
\* of its commands that neither failed nor gave an empty output; one
\* that failed while decoding has tried every command of the list, and
\* every one of them failed or gave an empty output.
C12_FirstVariantWithOutput ==
    \A c \in 1..Len(opens) :
        LET o == opens[c]
            n == Len(o.hist)
        IN  IsFFmpegFmt(o.cand.fmt) =>
               /\ o.pc = "done" =>
                     /\ o.got.by = c /\ o.got.bytes # <<>>
                     /\ n >= 1 /\ o.hist[n] = "output"
                     /\ \A i \in 1..(n - 1) : o.hist[i] \in {"error", "empty"}
               /\ (o.pc = "failed" /\ n >= 1) =>
                     /\ n = Len(tries(o.cand.fmt))
                     /\ \A i \in 1..n : o.hist[i] \in {"error", "empty"}

\* The invocation returned samples that another invocation's command wrote.
C12_ForeignOutput ==
    \A c \in 1..Len(opens) : opens[c].pc = "done" => opens[c].got.by \in {0, c}

\* ----------------------------------------------------------------- C13
InFlight(c) == opens[c].pc \notin {"done", "failed"}

\* C13: at most one full decode of openModal is in flight, and once all
\* invocations have settled an open detail view holds the candidate and
\* the samples of the latest invocation that succeeded, in whatever order
\* the decodes completed.
C13_LaterOpenReplaces ==
    /\ Cardinality({c \in 1..Len(opens) : InFlight(c)}) <= 1
    /\ (modal # NoModal /\ \A c \in 1..Len(opens) : ~InFlight(c)) =>
          \A c \in 1..Len(opens) :
              opens[c].pc = "done" =>
                  /\ modal.by >= c
                  /\ modal.cand = opens[modal.by].cand
                  /\ modal.from = modal.by

\* ----------------------------------------------------------------- C14
\* An invocation of openModal fails in this step.
FailsNow(c) ==
    /\ opens'[c].pc = "failed"
    /\ c <= Len(opens) => opens[c].pc # "failed"

\* The failure part of C14: a failing full decode leaves the detail view
\* as it was and alerts once.
C14_FailureKeepsModal ==
    [][ \A c \in 1..Len(opens') :
           FailsNow(c) => (modal' = modal /\ alerts' = alerts + 1) ]_vars

\* C14: a full decode that fails leaves the detail view as it was and
\* reports one error; the detail view is only ever set, by an invocation
\* whose decode succeeded, to that invocation's candidate with one buffer
\* per channel decoded by that same invocation.
C14_ModalOnlyFromOwnDecode ==
    [][ /\ \A c \in 1..Len(opens') :
              FailsNow(c) => (modal' = modal /\ alerts' = alerts + 1)
        /\ (modal' # modal /\ modal' # NoModal) =>
              /\ opens'[modal'.by].pc = "done"
              /\ modal'.cand = opens'[modal'.by].cand
              /\ Len(modal'.fullCh) = modal'.cand.ch
              /\ modal'.from = modal'.by
      ]_vars

====
